---- MODULE Spec2Model ----
(***************************************************************************)
(* Two tick-driven market-making scripts of the repository:                *)
(*   QuickstartScript2 (scripts/quickstart_script_2_statusmode.py), "QS2"  *)
(*   RSIAMM            (scripts/RSI-AMM.py),                     "RSIAMM"  *)
(* Each handler (on_tick, did_fill_order, on_stop) is one action.  The     *)
(* methods are operators from the values they read to the values they      *)
(* produce; a Python exception leaving a method is the field `raised`.     *)
(*                                                                         *)
(* Numbers are the program's: a spread factor is a binary float (53-bit    *)
(* significand, round half to even), Decimal(float) is the float's exact   *)
(* value, and a product of Decimals is rounded to 28 significant digits,   *)
(* half to even.  Naturals too large for one integer are sequences of      *)
(* limbs, least significant first.                                         *)
(*                                                                         *)
(* Spec is the two scripts under ticks, fills, cancel confirmations, feed  *)
(* changes and stop.  FilterSpec, QuoteSpec and CycleSpec each run one     *)
(* method once, from every input of a bounded set: f_in holds the input    *)
(* and f_out the result.                                                   *)
(*                                                                         *)
(* What the scripts call and do not define is an input: the venue, the     *)
(* price source, the candle feed, the indicators of the charting library   *)
(* and the budget checker answer, or raise, as the environment chooses.    *)
(***************************************************************************)
EXTENDS Integers, Sequences, FiniteSets, TLC

(***************************************************************************)
(* Bounds of the model                                                     *)
(***************************************************************************)
MaxTime == 16       \* the clock stops advancing here
MaxStep == 5        \* largest clock advance between two ticks
MaxTicks == 7       \* on_tick is called this many times
MaxFilterLen == 2   \* longest proposal list given to a method run alone
MaxNatr == 200      \* largest whole NATR, in percent, of create_proposal alone

(***************************************************************************)
(* Program constants                                                       *)
(***************************************************************************)
order_refresh_time == 15          \* QS2 line 19, RSIAMMConfig line 27
bid_spread_pct == 2               \* QS2 bid_spread = 0.02
ask_spread_pct == 2               \* QS2 ask_spread = 0.02
QS2_order_amount == 40            \* QS2 order_amount
RSIAMM_order_amount == 3          \* RSIAMMConfig order_amount 0.0003, in 1/10000
rsi_high == 70
rsi_low == 30
natr_spread_multiplier_num == 1   \* natr_spread_multiplier = 0.5 = 1/2
natr_spread_multiplier_den == 2
rsi_spread_change_num == 1        \* rsi_spread_change = 0.5 = 1/2
rsi_spread_change_den == 2
PctDen == 100                     \* natr.iloc[-1] / 100, and spreads in percent

Strategies == {"QS2", "RSIAMM"}
Sides == {"BUY", "SELL"}

(***************************************************************************)
(* Naturals of any size: sequences of limbs in base LimbBase, the least    *)
(* significant first and the most significant not zero; <<>> is 0          *)
(***************************************************************************)
LimbBase == 10000
LimbDigits == 4

Max(a, b) == IF a >= b THEN a ELSE b
Min(a, b) == IF a <= b THEN a ELSE b
Abs(a) == IF a >= 0 THEN a ELSE -a

RECURSIVE Pow(_, _)
Pow(b, k) == IF k = 0 THEN 1 ELSE b * Pow(b, k - 1)

RECURSIVE BigNorm(_)
BigNorm(a) ==
    IF a = <<>> THEN a
    ELSE IF a[Len(a)] = 0 THEN BigNorm(SubSeq(a, 1, Len(a) - 1))
    ELSE a

RECURSIVE BigOf(_)
BigOf(n) == IF n = 0 THEN <<>> ELSE <<n % LimbBase>> \o BigOf(n \div LimbBase)

Limb(a, i) == IF i <= Len(a) THEN a[i] ELSE 0

\* the limbs of the number whose i-th limb, before carrying, is xs[i]
RECURSIVE BigCarry(_, _, _)
BigCarry(xs, i, carry) ==
    IF i > Len(xs) THEN BigOf(carry)
    ELSE LET t == xs[i] + carry
         IN  <<t % LimbBase>> \o BigCarry(xs, i + 1, t \div LimbBase)

BigAdd(a, b) ==
    BigCarry([i \in 1..Max(Len(a), Len(b)) |-> Limb(a, i) + Limb(b, i)], 1, 0)

RECURSIVE BigBorrow(_, _, _, _)
BigBorrow(a, b, i, borrow) ==
    IF i > Len(a) THEN <<>>
    ELSE LET t == a[i] - Limb(b, i) - borrow
         IN  IF t < 0 THEN <<t + LimbBase>> \o BigBorrow(a, b, i + 1, 1)
             ELSE <<t>> \o BigBorrow(a, b, i + 1, 0)

\* a - b, for a >= b
BigSub(a, b) == BigNorm(BigBorrow(a, b, 1, 0))

RECURSIVE BigCmpFrom(_, _, _)
BigCmpFrom(a, b, i) ==
    IF i = 0 THEN 0
    ELSE IF a[i] < b[i] THEN -1
    ELSE IF a[i] > b[i] THEN 1
    ELSE BigCmpFrom(a, b, i - 1)

\* -1, 0 or 1 as a is below, equal to or above b
BigCmp(a, b) ==
    IF Len(a) < Len(b) THEN -1
    ELSE IF Len(a) > Len(b) THEN 1
    ELSE BigCmpFrom(a, b, Len(a))

\* the sum of a[i] * b[k + 1 - i]: limb k of the product before carrying
RECURSIVE BigColumn(_, _, _, _)
BigColumn(a, b, k, i) ==
    IF i > Len(a) \/ i > k THEN 0
    ELSE (IF k + 1 - i <= Len(b) THEN a[i] * b[k + 1 - i] ELSE 0)
             + BigColumn(a, b, k, i + 1)

\* a * b; the shorter factor has at most 21 limbs, so that a column fits an
\* integer
BigMul(a, b) ==
    IF a = <<>> \/ b = <<>> THEN <<>>
    ELSE BigCarry([k \in 1..(Len(a) + Len(b) - 1) |-> BigColumn(a, b, k, 1)],
                  1, 0)

\* a * d for an integer d, 0 < d <= LimbBase
BigMulSmall(a, d) == BigCarry([i \in 1..Len(a) |-> a[i] * d], 1, 0)

RECURSIVE BigDivFrom(_, _, _, _)
BigDivFrom(a, d, i, rem) ==
    IF i = 0 THEN [q |-> <<>>, r |-> rem]
    ELSE LET t == rem * LimbBase + a[i]
             rest == BigDivFrom(a, d, i - 1, t % d)
         IN  [q |-> Append(rest.q, t \div d), r |-> rest.r]

\* quotient and remainder of a by an integer d, 0 < d <= LimbBase
BigDivSmall(a, d) ==
    LET x == BigDivFrom(a, d, Len(a), 0) IN [q |-> BigNorm(x.q), r |-> x.r]

BigOdd(a) == a # <<>> /\ a[1] % 2 = 1

\* b^k for an integer b, 0 < b <= LimbBase
RECURSIVE BigPow(_, _)
BigPow(b, k) ==
    IF k = 0 THEN <<1>>
    ELSE LET h == BigPow(b, k \div 2)
         IN  BigMulSmall(BigMul(h, h), IF k % 2 = 0 THEN 1 ELSE b)

RECURSIVE SmallDigits(_)
SmallDigits(n) == IF n = 0 THEN 0 ELSE 1 + SmallDigits(n \div 10)

\* the number of decimal digits of a
BigDigits(a) ==
    IF a = <<>> THEN 0
    ELSE LimbDigits * (Len(a) - 1) + SmallDigits(a[Len(a)])

\* a * 10^k
BigShift(a, k) ==
    IF a = <<>> THEN a
    ELSE [i \in 1..(k \div LimbDigits) |-> 0]
             \o BigMulSmall(a, Pow(10, k % LimbDigits))

\* the quotient x.q of a division by d, one more when the remainder x.r
\* with the digits `low` below it is over a half, or is a half and the
\* quotient is odd
BigRoundHalfEven(x, d, low) ==
    IF 2 * x.r > d \/ (2 * x.r = d /\ (low # <<>> \/ BigOdd(x.q)))
    THEN BigAdd(x.q, <<1>>)
    ELSE x.q

\* a / 10^k rounded to an integer, half to even; k >= 0
BigRoundDigits(a, k) ==
    IF k = 0 THEN a
    ELSE LET whole == (k - 1) \div LimbDigits
             d == Pow(10, ((k - 1) % LimbDigits) + 1)
         IN  BigRoundHalfEven(BigDivSmall(SubSeq(a, whole + 1, Len(a)), d),
                              d, BigNorm(SubSeq(a, 1, whole)))

(***************************************************************************)
(* Python floats: [sign, m, e] is sign * m * 2^e, with m a natural below   *)
(* 2^FloatBits.  Every result is the exact one rounded to FloatBits bits,  *)
(* half to even (the exponent range is never left here).                   *)
(***************************************************************************)
FloatBits == 53
ChunkBits == 12
\* a natural of more than ChunkDigits digits is at least
\* 2^(FloatBits + ChunkBits)
ChunkDigits == 20
\* LimbBase is a multiple of 2^LowBits
LowBits == 4

TwoToFloatBits == BigPow(2, FloatBits)

\* m * 2^e with m of any size, brought below 2^FloatBits: low bits are
\* dropped ChunkBits at a time while more than ChunkBits are to go, then
\* one at a time; `guard` is 1 when the last drop lost a one (after the
\* final drop, the last bit dropped) and `sticky` tells whether a one was
\* lost before it
RECURSIVE FloatRoundFrom(_, _, _, _)
FloatRoundFrom(m, e, guard, sticky) ==
    IF BigCmp(m, TwoToFloatBits) < 0
    THEN IF guard = 1 /\ (sticky \/ BigOdd(m))
         THEN [m |-> BigAdd(m, <<1>>), e |-> e]
         ELSE [m |-> m, e |-> e]
    ELSE LET bits == IF BigDigits(m) > ChunkDigits THEN ChunkBits ELSE 1
             x == BigDivSmall(m, Pow(2, bits))
         IN  FloatRoundFrom(x.q, e + bits, IF x.r = 0 THEN 0 ELSE 1,
                            sticky \/ guard = 1)

\* the float of sign `sign` and magnitude r.m * 2^r.e
FloatSigned(sign, r) ==
    [sign |-> IF r.m = <<>> THEN 0 ELSE sign, m |-> r.m, e |-> r.e]

FloatRound(sign, m, e, sticky) ==
    FloatSigned(sign, FloatRoundFrom(m, e, 0, sticky))

\* the float n / 2^j, for a natural n below 2^31
FloatOf(n, j) == [sign |-> IF n = 0 THEN 0 ELSE 1, m |-> BigOf(n), e |-> -j]

\* x / d for a float x >= 0 and an integer d, 0 < d <= LimbBase
FloatDivSmall(x, d) ==
    IF x.sign = 0 THEN x
    ELSE LET q == BigDivSmall(BigMul(x.m, BigPow(2, 2 * FloatBits)), d)
         IN  FloatRound(1, q.q, x.e - 2 * FloatBits, q.r # 0)

\* x * y
FloatMul(x, y) ==
    FloatRound(x.sign * y.sign, BigMul(x.m, y.m), x.e + y.e, FALSE)

\* 1 + y and 1 - y for a float y >= 0 that is 0 or has y.e <= 0
FloatOnePlus(y) ==
    IF y.sign = 0 THEN FloatOf(1, 0)
    ELSE FloatRound(1, BigAdd(BigPow(2, -y.e), y.m), y.e, FALSE)

\* (a - b) * 2^e
FloatDifference(a, b, e) ==
    FloatRound(IF BigCmp(a, b) >= 0 THEN 1 ELSE -1,
               IF BigCmp(a, b) >= 0 THEN BigSub(a, b) ELSE BigSub(b, a),
               e, FALSE)

FloatOneMinus(y) ==
    IF y.sign = 0 THEN FloatOf(1, 0)
    ELSE FloatDifference(BigPow(2, -y.e), y.m, y.e)

\* -1, 0 or 1 as the float x is below, equal to or above the float y
FloatCmp(x, y) ==
    IF x.sign # y.sign THEN (IF x.sign < y.sign THEN -1 ELSE 1)
    ELSE IF x.sign = 0 THEN 0
    ELSE x.sign * BigCmp(BigMul(x.m, BigPow(2, x.e - Min(x.e, y.e))),
                         BigMul(y.m, BigPow(2, y.e - Min(x.e, y.e))))

(***************************************************************************)
(* Python Decimals: [sign, c, e] is sign * c * 10^e, c a natural.  The     *)
(* context is the default one: DecimalPrec significant digits, rounding    *)
(* half to even.                                                           *)
(***************************************************************************)
DecimalPrec == 28

Dec(sign, c, e) == [sign |-> IF c = <<>> THEN 0 ELSE sign, c |-> c, e |-> e]

\* Decimal(n) for an integer n
DecimalOfInt(n) == Dec(IF n < 0 THEN -1 ELSE 1, BigOf(Abs(n)), 0)

\* m * 2^e in lowest terms: while e < 0, factors of two leave m, LowBits
\* at a time where the lowest limb shows that many, else one at a time
RECURSIVE FloatLowest(_, _)
FloatLowest(m, e) ==
    IF e >= 0 \/ m = <<>> \/ BigOdd(m) THEN [m |-> m, e |-> e]
    ELSE LET bits == IF e <= -LowBits /\ m[1] % Pow(2, LowBits) = 0
                     THEN LowBits ELSE 1
         IN  FloatLowest(BigDivSmall(m, Pow(2, bits)).q, e + bits)

\* the Decimal of sign `sign` and magnitude f.m * 2^f.e, f in lowest terms:
\* with n / 2^k the fraction, the coefficient is n * 5^k and the exponent -k
DecimalOfLowest(sign, f) ==
    Dec(sign, BigMul(f.m, BigPow(IF f.e >= 0 THEN 2 ELSE 5, Abs(f.e))),
        Min(f.e, 0))

\* Decimal(x) for a float x: the float's value, exactly
DecimalOfFloat(x) ==
    IF x.sign = 0 THEN Dec(0, <<>>, 0)
    ELSE DecimalOfLowest(x.sign, FloatLowest(x.m, x.e))

\* sign * r * 10^e for r of at most DecimalPrec + 1 digits, rounded to the
\* context's precision
DecimalCarried(sign, r, e) ==
    IF BigDigits(r) > DecimalPrec THEN Dec(sign, BigRoundDigits(r, 1), e + 1)
    ELSE Dec(sign, r, e)

\* sign * c * 10^e rounded to the context's precision
DecimalFix(sign, c, e) ==
    IF BigDigits(c) <= DecimalPrec THEN Dec(sign, c, e)
    ELSE DecimalCarried(sign, BigRoundDigits(c, BigDigits(c) - DecimalPrec),
                        e + BigDigits(c) - DecimalPrec)

\* a * b
DecimalMul(a, b) == DecimalFix(a.sign * b.sign, BigMul(a.c, b.c), a.e + b.e)

\* -1, 0 or 1 as a is below, equal to or above b: the comparison of two
\* Decimals, and of a Decimal with a float, is exact
DecimalCmp(a, b) ==
    IF a.sign # b.sign THEN (IF a.sign < b.sign THEN -1 ELSE 1)
    ELSE IF a.sign = 0 THEN 0
    ELSE a.sign * BigCmp(BigShift(a.c, a.e - Min(a.e, b.e)),
                         BigShift(b.c, b.e - Min(a.e, b.e)))

DecimalLess(a, b) == DecimalCmp(a, b) < 0
DecimalEq(a, b) == DecimalCmp(a, b) = 0

DecimalZero == DecimalOfInt(0)
FloatZero == FloatOf(0, 0)

\* the float literals of the two scripts
bid_spread == FloatDivSmall(FloatOf(bid_spread_pct, 0), PctDen)
ask_spread == FloatDivSmall(FloatOf(ask_spread_pct, 0), PctDen)
natr_spread_multiplier ==
    FloatDivSmall(FloatOf(natr_spread_multiplier_num, 0),
                  natr_spread_multiplier_den)
rsi_spread_change ==
    FloatDivSmall(FloatOf(rsi_spread_change_num, 0), rsi_spread_change_den)

(***************************************************************************)
(* Inputs the collaborators supply to one refresh cycle                    *)
(***************************************************************************)
MidPrices == {100}                 \* get_price_by_type, in whole price units
\* ta.natr(...).iloc[-1], a float percentage
NatrValues == {FloatOf(1, 0), FloatOf(2, 0)}
RsiValues == {25, 50, 75}          \* candles_df.iat[-1, -1]
\* Bollinger bands <<upper, lower>> of the last candle, floats
BandValues ==
    { <<FloatOf(105, 0), FloatOf(95, 0)>>,
      <<FloatOf(97, 0), FloatOf(95, 0)>>,
      <<FloatOf(105, 0), FloatOf(103, 0)>> }

\* a function written out as the table of its values
Tabulated(f) == f @@ <<>>

\* a call answers with a value of S, or raises
Opt(S) == [raise : {FALSE}, v : S]
Raise(dflt) == [raise |-> TRUE, v |-> dflt]

NoBand == <<FloatZero, FloatZero>>

\* what the band computation may do: give both bands of the last candle,
\* or raise before price_ceiling is assigned (bbands raises, or the history
\* is shorter than its length, no column is appended and the first read
\* raises).  The one bbands call writes both columns and both are read
\* alike from one row: where the first read succeeds so does the second.
BandAnswers(bands) == Opt(bands) \cup {Raise(NoBand)}

\* what budget_checker.adjust_candidates(proposal, all_or_none=True)
\* answers: the sides of the candidates it returns.  The checker is the
\* connector's and sees balances no script holds.
BudgetAnswers == Opt(SUBSET Sides) \cup {Raise({})}

(***************************************************************************)
(* State                                                                   *)
(***************************************************************************)
VARIABLES
    strategy,           \* which script runs
    create_timestamp,   \* next_refresh_time
    current_timestamp,  \* the clock, as the script reads it
    price_ceiling,      \* QS2 only
    price_floor,        \* QS2 only
    feed_ready,         \* eth_1m_candles.is_ready / market_data_provider.ready
    active_orders,      \* get_active_orders(): resting orders, oldest first
    ticks,              \* how many times on_tick has been called
    last,               \* what the last handler did
    f_in,               \* a method run alone: its input
    f_out               \* a method run alone: its output

vars == <<strategy, create_timestamp, current_timestamp, price_ceiling,
          price_floor, feed_ready, active_orders, ticks, last, f_in, f_out>>

stratVars == <<strategy, create_timestamp, current_timestamp, price_ceiling,
               price_floor, feed_ready, active_orders, ticks, last>>

filterVars == <<f_in, f_out>>

(***************************************************************************)
(* Records                                                                 *)
(***************************************************************************)
\* OrderCandidate(order_side, amount, price); the pair, is_maker and the
\* LIMIT type are the same in every candidate.  The price is a Decimal.
OrderCandidate(side, amount, price) ==
    [side |-> side, amount |-> amount, price |-> price]

\* a request made to the venue: cancel(id), buy(...) or sell(...).  A client
\* order id is a label no handler keeps between two calls: a resting order
\* is named by its place in the list get_active_orders() returns.
CancelRequest(id, raised) ==
    [op |-> "cancel", id |-> id, amount |-> 0, price |-> DecimalZero,
     raised |-> raised]

SubmitRequest(order, raised) ==
    [op |-> IF order.side = "SELL" THEN "sell" ELSE "buy", id |-> 0,
     amount |-> order.amount, price |-> order.price, raised |-> raised]

OrderIds(orders) == 1..Len(orders)

(***************************************************************************)
(* Venue calls: fire and forget.  A cancel that is accepted marks the      *)
(* order as being cancelled; a buy/sell that is accepted makes the order   *)
(* rest.  A call that raises changes nothing at the venue.                 *)
(***************************************************************************)
cancel(orders, id) ==
    [i \in 1..Len(orders) |->
        IF i = id THEN [orders[i] EXCEPT !.cancelling = TRUE]
        ELSE orders[i]]

submit(orders, order) ==
    Append(orders, [side |-> order.side, cancelling |-> FALSE])

(***************************************************************************)
(* cancel_all_orders: the loop over get_active_orders().  The loop ends at *)
(* the first cancel that raises, in both scripts: QS2 wraps the whole loop *)
(* in one try, RSIAMM has no try at all.                                   *)
(***************************************************************************)
RECURSIVE CancelLoop(_, _, _, _)
CancelLoop(listed, i, orders, cancel_raises) ==
    IF i > Len(listed)
    THEN [active_orders |-> orders, requests |-> <<>>, raised |-> FALSE]
    ELSE IF i \in cancel_raises
    THEN [active_orders |-> orders,
          requests |-> <<CancelRequest(i, TRUE)>>,
          raised |-> TRUE]
    ELSE LET rest == CancelLoop(listed, i + 1, cancel(orders, i),
                                cancel_raises)
         IN  [rest EXCEPT !.requests = <<CancelRequest(i, FALSE)>> \o @]

\* a plausible slip: the loop finds no order to cancel (the orders of
\* another connector are listed)
QS2_cancel_all_orders_none(orders, cancel_raises) ==
    [active_orders |-> orders, requests |-> <<>>, raised |-> FALSE]

\* QS2: except Exception: log
QS2_cancel_all_orders(orders, cancel_raises) ==
    [CancelLoop(orders, 1, orders, cancel_raises) EXCEPT !.raised = FALSE]

\* RSIAMM: the exception leaves the method
RSIAMM_cancel_all_orders(orders, cancel_raises) ==
    CancelLoop(orders, 1, orders, cancel_raises)

(***************************************************************************)
(* place_order / place_orders                                              *)
(***************************************************************************)
\* QS2.place_order: the buy/sell call is inside try/except
QS2_place_order(orders, order, submit_raises) ==
    IF order.side \in submit_raises
    THEN [active_orders |-> orders,
          requests |-> <<SubmitRequest(order, TRUE)>>, raised |-> FALSE]
    ELSE [active_orders |-> submit(orders, order),
          requests |-> <<SubmitRequest(order, FALSE)>>, raised |-> FALSE]

\* RSIAMM.place_order: no try
RSIAMM_place_order(orders, order, submit_raises) ==
    IF order.side \in submit_raises
    THEN [active_orders |-> orders,
          requests |-> <<SubmitRequest(order, TRUE)>>, raised |-> TRUE]
    ELSE [active_orders |-> submit(orders, order),
          requests |-> <<SubmitRequest(order, FALSE)>>, raised |-> FALSE]

RECURSIVE QS2_PlaceLoop(_, _, _, _)
QS2_PlaceLoop(proposal, i, orders, submit_raises) ==
    IF i > Len(proposal)
    THEN [active_orders |-> orders, requests |-> <<>>, raised |-> FALSE]
    ELSE LET one == QS2_place_order(orders, proposal[i], submit_raises)
         IN  IF one.raised THEN one
             ELSE LET rest == QS2_PlaceLoop(proposal, i + 1, one.active_orders,
                                            submit_raises)
                  IN  [rest EXCEPT !.requests = one.requests \o @]

QS2_place_orders(proposal, orders, submit_raises) ==
    [QS2_PlaceLoop(proposal, 1, orders, submit_raises) EXCEPT !.raised = FALSE]

RECURSIVE RSIAMM_PlaceLoop(_, _, _, _)
RSIAMM_PlaceLoop(proposal, i, orders, submit_raises) ==
    IF i > Len(proposal)
    THEN [active_orders |-> orders, requests |-> <<>>, raised |-> FALSE]
    ELSE LET one == RSIAMM_place_order(orders, proposal[i], submit_raises)
         IN  IF one.raised THEN one
             ELSE LET rest == RSIAMM_PlaceLoop(proposal, i + 1,
                                               one.active_orders, submit_raises)
                  IN  [rest EXCEPT !.requests = one.requests \o @]

RSIAMM_place_orders(proposal, orders, submit_raises) ==
    RSIAMM_PlaceLoop(proposal, 1, orders, submit_raises)

(***************************************************************************)
(* QS2: band, proposal, band filter, budget                                *)
(***************************************************************************)
\* a plausible slip: a failed computation clears the bands
calculate_price_ceiling_floor_resets(ceiling, floor, band) ==
    IF band.raise
    THEN [price_ceiling |-> DecimalZero, price_floor |-> DecimalZero]
    ELSE [price_ceiling |-> DecimalOfFloat(band.v[1]),
          price_floor |-> DecimalOfFloat(band.v[2])]

\* calculate_price_ceiling_floor: price_ceiling and price_floor are assigned
\* the bands of the last candle inside one try; when the computation raises
\* nothing has been assigned and both stay as they were
calculate_price_ceiling_floor(ceiling, floor, band) ==
    IF band.raise
    THEN [price_ceiling |-> ceiling, price_floor |-> floor]
    ELSE [price_ceiling |-> DecimalOfFloat(band.v[1]),
          price_floor |-> DecimalOfFloat(band.v[2])]

\* Decimal(1 - self.bid_spread) and Decimal(1 + self.ask_spread)
QS2_buy_factor == DecimalOfFloat(FloatOneMinus(bid_spread))
QS2_sell_factor == DecimalOfFloat(FloatOnePlus(ask_spread))

\* QS2.create_proposal: [buy, sell] around the mid price, [] when the price
\* lookup raises; the mid price is a whole number here
QS2_create_proposal(mid) ==
    IF mid.raise THEN <<>>
    ELSE LET ref_price == DecimalOfInt(mid.v)
             buy_price == DecimalMul(ref_price, QS2_buy_factor)
             sell_price == DecimalMul(ref_price, QS2_sell_factor)
         IN  << OrderCandidate("BUY", QS2_order_amount, buy_price),
                OrderCandidate("SELL", QS2_order_amount, sell_price) >>

\* a plausible slip: >= and <= where the code has > and <
KeptByBand_inclusive(order, ceiling, floor) ==
    IF order.side = "SELL" /\ ~DecimalLess(order.price, floor) THEN TRUE
    ELSE IF order.side = "BUY" /\ ~DecimalLess(ceiling, order.price) THEN TRUE
    ELSE FALSE

\* the test of one order in apply_price_ceiling_floor_filter
KeptByBand(order, ceiling, floor) ==
    IF order.side = "SELL" /\ DecimalLess(floor, order.price) THEN TRUE
    ELSE IF order.side = "BUY" /\ DecimalLess(order.price, ceiling) THEN TRUE
    ELSE FALSE

RECURSIVE FilterLoop(_, _, _, _)
FilterLoop(proposal, i, ceiling, floor) ==
    IF i > Len(proposal) THEN <<>>
    ELSE IF KeptByBand(proposal[i], ceiling, floor)
    THEN <<proposal[i]>> \o FilterLoop(proposal, i + 1, ceiling, floor)
    ELSE FilterLoop(proposal, i + 1, ceiling, floor)

apply_price_ceiling_floor_filter(proposal, ceiling, floor) ==
    FilterLoop(proposal, 1, ceiling, floor)

\* adjust_proposal_to_budget: the list the budget checker returns, as it
\* is; [] when the checker raises
adjust_proposal_to_budget(proposal, budget) ==
    IF budget.raise THEN <<>>
    ELSE SelectSeq(proposal, LAMBDA order : order.side \in budget.v)

(***************************************************************************)
(* RSIAMM: indicators and proposal                                         *)
(***************************************************************************)
\* get_natr: natr.iloc[-1] / 100; ta.natr gives None on too short a history
\* and .iloc raises
get_natr(natr) ==
    IF natr.raise THEN Raise(FloatZero)
    ELSE [raise |-> FALSE, v |-> FloatDivSmall(natr.v, PctDen)]

\* get_rsi_signal: -1 above rsi_high, 1 below rsi_low, else 0
get_rsi_signal(rsi) ==
    IF rsi.raise THEN [raise |-> TRUE, v |-> 0]
    ELSE [raise |-> FALSE,
          v |-> IF rsi.v > rsi_high THEN -1
                ELSE IF rsi.v < rsi_low THEN 1
                ELSE 0]

\* natr_spread_multiplier * natr * rsi_spread_change, and
\* natr_spread_multiplier * natr, in floats
SkewOffset(natr) ==
    FloatMul(FloatMul(natr_spread_multiplier, natr), rsi_spread_change)

HalfSpread(natr) == FloatMul(natr_spread_multiplier, natr)

\* mid_price * Decimal(1 + skew offset) on signal 1,
\* mid_price * Decimal(1 - skew offset) on signal -1, else mid_price
AdjustedMidPrice(mid_price, rsi_signal, natr) ==
    IF rsi_signal = 1
    THEN DecimalMul(mid_price, DecimalOfFloat(FloatOnePlus(SkewOffset(natr))))
    ELSE IF rsi_signal = -1
    THEN DecimalMul(mid_price, DecimalOfFloat(FloatOneMinus(SkewOffset(natr))))
    ELSE mid_price

\* RSIAMM.create_proposal from the adjusted mid price on: [buy, sell] at
\* adjusted_mid_price * Decimal(1 - half spread) and
\* adjusted_mid_price * Decimal(1 + half spread)
RSIAMM_orders(adjusted_mid_price, natr) ==
    LET buy_price ==
            DecimalMul(adjusted_mid_price,
                       DecimalOfFloat(FloatOneMinus(HalfSpread(natr))))
        sell_price ==
            DecimalMul(adjusted_mid_price,
                       DecimalOfFloat(FloatOnePlus(HalfSpread(natr))))
    IN  [raised |-> FALSE, adjusted_mid_price |-> adjusted_mid_price,
         proposal |->
           << OrderCandidate("BUY", RSIAMM_order_amount, buy_price),
              OrderCandidate("SELL", RSIAMM_order_amount, sell_price) >>]

\* RSIAMM.create_proposal after get_natr gave `natr` and get_rsi_signal gave
\* `rsi_signal`
RSIAMM_create_proposal_with(mid_price, natr, rsi_signal) ==
    IF natr.raise \/ rsi_signal.raise
    THEN [raised |-> TRUE, adjusted_mid_price |-> mid_price,
          proposal |-> <<>>]
    ELSE RSIAMM_orders(AdjustedMidPrice(mid_price, rsi_signal.v, natr.v),
                       natr.v)

\* RSIAMM.create_proposal: raises when an indicator does
RSIAMM_create_proposal(mid_price, natr_in, rsi_in) ==
    RSIAMM_create_proposal_with(mid_price, get_natr(natr_in),
                                get_rsi_signal(rsi_in))

(***************************************************************************)
(* on_tick                                                                 *)
(***************************************************************************)
\* what a handler leaves behind: the script's fields, the venue's orders,
\* and what the handler did
Outcome(ts, ceil, flr, orders, entered, raised, prop, filt, adj, reqs) ==
    [create_timestamp |-> ts, price_ceiling |-> ceil, price_floor |-> flr,
     active_orders |-> orders, entered |-> entered, raised |-> raised,
     proposal |-> prop, filtered |-> filt, adjusted |-> adj,
     requests |-> reqs]

Untouched(st) ==
    Outcome(st.create_timestamp, st.price_ceiling, st.price_floor,
            st.active_orders, FALSE, FALSE, <<>>, <<>>, <<>>, <<>>)

\* `st` holds the script's fields and the venue's orders before the tick,
\* `now` is current_timestamp, `ready` the feed's flag, `in` what the
\* collaborators answer during the cycle

\* QS2.on_tick between the cancels and the submits: the bands, the proposal,
\* the band filter and the budget check
QS2_quote_adjust(b, proposal, proposal_filtered, budget) ==
    [price_ceiling |-> b.price_ceiling, price_floor |-> b.price_floor,
     proposal |-> proposal, filtered |-> proposal_filtered,
     adjusted |-> adjust_proposal_to_budget(proposal_filtered, budget)]

QS2_quote_filter(b, proposal, budget) ==
    QS2_quote_adjust(b, proposal,
                     apply_price_ceiling_floor_filter(proposal,
                                                      b.price_ceiling,
                                                      b.price_floor),
                     budget)

QS2_quote(ceiling, floor, band, mid, budget) ==
    QS2_quote_filter(calculate_price_ceiling_floor(ceiling, floor, band),
                     QS2_create_proposal(mid), budget)

\* QS2_quote at the band fields and the answers the state machine below
\* uses, worked out once
QS2_QuoteKeys ==
    [ceiling : {DecimalZero} \cup {DecimalOfFloat(b[1]) : b \in BandValues},
     floor : {DecimalZero} \cup {DecimalOfFloat(b[2]) : b \in BandValues},
     band : BandAnswers(BandValues),
     mid : Opt(MidPrices) \cup {Raise(0)},
     budget : BudgetAnswers]

QS2_QuoteTable ==
    Tabulated([k \in QS2_QuoteKeys |->
                  QS2_quote(k.ceiling, k.floor, k.band, k.mid, k.budget)])

QS2_quote_of(ceiling, floor, band, mid, budget) ==
    LET k == [ceiling |-> ceiling, floor |-> floor, band |-> band,
              mid |-> mid, budget |-> budget]
    IN  IF k \in QS2_QuoteKeys THEN QS2_QuoteTable[k]
        ELSE QS2_quote(ceiling, floor, band, mid, budget)

\* QS2.on_tick, the body run when a refresh is due and the feed is ready:
\* `c` is what cancel_all_orders left, `q` the quote and `p` what
\* place_orders left
QS2_cycle_end(now, c, q, p) ==
    Outcome(order_refresh_time + now, q.price_ceiling, q.price_floor,
            p.active_orders, TRUE, FALSE, q.proposal, q.filtered, q.adjusted,
            c.requests \o p.requests)

QS2_cycle_place(now, submit_raises, c, q) ==
    QS2_cycle_end(now, c, q,
                  QS2_place_orders(q.adjusted, c.active_orders, submit_raises))

QS2_cycle(st, now, in) ==
    QS2_cycle_place(now, in.submit_raises,
                    QS2_cancel_all_orders(st.active_orders, in.cancel_raises),
                    QS2_quote_of(st.price_ceiling, st.price_floor, in.band,
                                 in.mid, in.budget))

\* a plausible slip: the feed's readiness is not asked
QS2_on_tick_ignores_ready(st, now, ready, in) ==
    IF st.create_timestamp <= now THEN QS2_cycle(st, now, in)
    ELSE Untouched(st)

\* a plausible slip: the refresh time is not asked
QS2_on_tick_every_tick(st, now, ready, in) ==
    IF ready THEN QS2_cycle(st, now, in)
    ELSE Untouched(st)

\* a plausible slip: < where the code has <=
QS2_on_tick_strict(st, now, ready, in) ==
    IF st.create_timestamp < now
    THEN IF ready THEN QS2_cycle(st, now, in)
         ELSE Untouched(st)
    ELSE Untouched(st)

QS2_on_tick(st, now, ready, in) ==
    IF st.create_timestamp <= now
    THEN IF ready THEN QS2_cycle(st, now, in)
         ELSE Untouched(st)
    ELSE Untouched(st)

\* RSIAMM_create_proposal at the answers the state machine below uses,
\* worked out once
RSIAMM_ProposalKeys ==
    [mid_price : {DecimalOfInt(m) : m \in MidPrices \cup {0}},
     natr : Opt(NatrValues) \cup {Raise(FloatZero)},
     rsi : Opt(RsiValues) \cup {Raise(0)}]

RSIAMM_ProposalTable ==
    Tabulated([k \in RSIAMM_ProposalKeys |->
                  RSIAMM_create_proposal(k.mid_price, k.natr, k.rsi)])

RSIAMM_create_proposal_of(mid_price, natr_in, rsi_in) ==
    LET k == [mid_price |-> mid_price, natr |-> natr_in, rsi |-> rsi_in]
    IN  IF k \in RSIAMM_ProposalKeys THEN RSIAMM_ProposalTable[k]
        ELSE RSIAMM_create_proposal(mid_price, natr_in, rsi_in)

\* RSIAMM.on_tick, the body run when a refresh is due; nothing is caught, so
\* the first call that raises ends the tick with create_timestamp as it was:
\* `c` is what cancel_all_orders left, `g` what create_proposal gave and `p`
\* what place_orders left
RSIAMM_cycle_end(st, now, mid, c, g, p) ==
    IF c.raised \/ mid.raise \/ g.raised
    THEN Outcome(st.create_timestamp, st.price_ceiling, st.price_floor,
                 c.active_orders, TRUE, TRUE, <<>>, <<>>, <<>>, c.requests)
    ELSE IF p.raised
    THEN Outcome(st.create_timestamp, st.price_ceiling, st.price_floor,
                 p.active_orders, TRUE, TRUE, g.proposal, g.proposal,
                 g.proposal, c.requests \o p.requests)
    ELSE Outcome(order_refresh_time + now, st.price_ceiling, st.price_floor,
                 p.active_orders, TRUE, FALSE, g.proposal, g.proposal,
                 g.proposal, c.requests \o p.requests)

RSIAMM_cycle_place(st, now, in, c, g) ==
    RSIAMM_cycle_end(st, now, in.mid, c, g,
                     RSIAMM_place_orders(g.proposal, c.active_orders,
                                         in.submit_raises))

RSIAMM_cycle(st, now, in) ==
    RSIAMM_cycle_place(st, now, in,
                       RSIAMM_cancel_all_orders(st.active_orders,
                                                in.cancel_raises),
                       RSIAMM_create_proposal_of(DecimalOfInt(in.mid.v),
                                                 in.natr, in.rsi))

\* a plausible slip: < where the code has <=
RSIAMM_on_tick_strict(st, now, ready, in) ==
    IF ~ready THEN Untouched(st)
    ELSE IF st.create_timestamp < now THEN RSIAMM_cycle(st, now, in)
    ELSE Untouched(st)

RSIAMM_on_tick(st, now, ready, in) ==
    IF ~ready THEN Untouched(st)
    ELSE IF st.create_timestamp <= now THEN RSIAMM_cycle(st, now, in)
    ELSE Untouched(st)

(***************************************************************************)
(* did_fill_order and on_stop                                              *)
(***************************************************************************)
\* did_fill_order: formats and sends a message; `fails` when the logging or
\* the notification raises.  QS2 catches it, RSIAMM does not.
\* a plausible slip: a fill asks for an immediate refresh
QS2_did_fill_order_refreshes(st, fails) ==
    [Untouched(st) EXCEPT !.create_timestamp = 0]

QS2_did_fill_order(st, fails) ==
    [Untouched(st) EXCEPT !.raised = FALSE]

RSIAMM_did_fill_order(st, fails) ==
    [Untouched(st) EXCEPT !.raised = fails]

\* QS2.on_stop: asks the candle feed to stop and logs; no field of the
\* script is assigned and no request is made to the venue
QS2_on_stop(st) == Untouched(st)

(***************************************************************************)
(* The state machine                                                       *)
(***************************************************************************)
Fields ==
    [create_timestamp |-> create_timestamp, price_ceiling |-> price_ceiling,
     price_floor |-> price_floor, active_orders |-> active_orders]

\* the record kept in `last`: which handler ran and what it did
Last(op, out) ==
    [op |-> op, entered |-> out.entered, raised |-> out.raised,
     proposal |-> out.proposal, filtered |-> out.filtered,
     adjusted |-> out.adjusted, requests |-> out.requests]

NoFilterRun ==
    [proposal |-> <<>>, ceiling |-> DecimalZero, floor |-> DecimalZero]
NoFilterOut == [done |-> FALSE, result |-> <<>>]

StratInit ==
    /\ strategy \in Strategies
    /\ create_timestamp = 0
    /\ current_timestamp = 0
    /\ price_ceiling = DecimalZero
    /\ price_floor = DecimalZero
    /\ feed_ready = FALSE
    /\ active_orders = <<>>
    /\ ticks = 0
    /\ last = Last("init", Untouched([create_timestamp |-> 0,
                                      price_ceiling |-> DecimalZero,
                                      price_floor |-> DecimalZero,
                                      active_orders |-> <<>>]))

Init ==
    /\ StratInit
    /\ f_in = NoFilterRun
    /\ f_out = NoFilterOut

\* what the collaborators may answer during one cycle
NoBandAnswer == Raise(NoBand)

NoInput ==
    [cancel_raises |-> {}, mid |-> Raise(0), band |-> NoBandAnswer,
     budget |-> Raise({}), natr |-> Raise(FloatZero),
     rsi |-> Raise(0), submit_raises |-> {}]

\* cancel_all_orders stops at the first cancel that raises, so at most one
\* cancel of a cycle is ever seen to raise
CancelFaults(orders) == {{}} \cup {{id} : id \in OrderIds(orders)}

QS2_InputsWith(orders, bands) ==
    [cancel_raises : CancelFaults(orders),
     mid : Opt(MidPrices) \cup {Raise(0)},
     band : BandAnswers(bands),
     budget : BudgetAnswers,
     natr : {Raise(FloatZero)},
     rsi : {Raise(0)},
     submit_raises : SUBSET Sides]

QS2_Inputs(orders) == QS2_InputsWith(orders, BandValues)

\* RSIAMM.on_tick ends at the first call that raises: a call that is never
\* made has no answer
RSIAMM_Inputs(orders) ==
    { in \in [cancel_raises : CancelFaults(orders),
              mid : Opt(MidPrices) \cup {Raise(0)},
              band : {NoBandAnswer},
              budget : {Raise({})},
              natr : Opt(NatrValues) \cup {Raise(FloatZero)},
              rsi : Opt(RsiValues) \cup {Raise(0)},
              submit_raises : SUBSET Sides] :
        /\ in.cancel_raises # {} => in.mid.raise
        /\ in.mid.raise => in.natr.raise
        /\ in.natr.raise => in.rsi.raise
        /\ in.rsi.raise => in.submit_raises = {}
        /\ "BUY" \in in.submit_raises => "SELL" \notin in.submit_raises }

\* the answers matter only to a tick that starts a cycle
Due(now) == feed_ready /\ create_timestamp <= now

Apply(op, out) ==
    /\ create_timestamp' = out.create_timestamp
    /\ price_ceiling' = out.price_ceiling
    /\ price_floor' = out.price_floor
    /\ active_orders' = out.active_orders
    /\ last' = Last(op, out)

\* the clock moves to `now` and on_tick, called once more, leaves `out`
TickTo(now, out) ==
    /\ current_timestamp' = now
    /\ ticks' = ticks + 1
    /\ Apply("tick", out)

\* the host calls on_tick with a clock that does not go back.  MaxTime
\* bounds the clock and MaxTicks the number of calls: a run of the model
\* ends there, whatever the script and the venue did before.
QS2_Tick ==
    /\ strategy = "QS2"
    /\ ticks < MaxTicks
    /\ \E dt \in 0..MaxStep :
         LET now == current_timestamp + dt IN
         /\ now <= MaxTime
         /\ \E in \in (IF Due(now) THEN QS2_Inputs(active_orders)
                       ELSE {NoInput}) :
              TickTo(now, QS2_on_tick(Fields, now, feed_ready, in))
    /\ UNCHANGED <<strategy, feed_ready, f_in, f_out>>

RSIAMM_Tick ==
    /\ strategy = "RSIAMM"
    /\ ticks < MaxTicks
    /\ \E dt \in 0..MaxStep :
         LET now == current_timestamp + dt IN
         /\ now <= MaxTime
         /\ \E in \in (IF Due(now) THEN RSIAMM_Inputs(active_orders)
                       ELSE {NoInput}) :
              TickTo(now, RSIAMM_on_tick(Fields, now, feed_ready, in))
    /\ UNCHANGED <<strategy, feed_ready, f_in, f_out>>

Without(orders, i) ==
    SubSeq(orders, 1, i - 1) \o SubSeq(orders, i + 1, Len(orders))

\* the venue fills a resting order, wholly or in part, and the script is
\* told: an order filled in part goes on resting
VenueFill ==
    /\ \E i \in 1..Len(active_orders) : \E whole, fails \in BOOLEAN :
         LET st == [Fields EXCEPT
                      !.active_orders = IF whole THEN Without(active_orders, i)
                                        ELSE active_orders]
             out == IF strategy = "QS2" THEN QS2_did_fill_order(st, fails)
                    ELSE RSIAMM_did_fill_order(st, fails)
         IN  Apply("fill", out)
    /\ UNCHANGED <<strategy, current_timestamp, feed_ready, ticks, f_in,
                   f_out>>

\* the venue confirms a cancel
VenueCancelled ==
    /\ \E i \in 1..Len(active_orders) :
         /\ active_orders[i].cancelling
         /\ Apply("cancelled",
                  Untouched([Fields EXCEPT
                               !.active_orders = Without(active_orders, i)]))
    /\ UNCHANGED <<strategy, current_timestamp, feed_ready, ticks, f_in,
                   f_out>>

\* the candle feed fills up, or drops out
FeedChange ==
    /\ feed_ready' = ~feed_ready
    /\ Apply("feed", Untouched(Fields))
    /\ UNCHANGED <<strategy, current_timestamp, ticks, f_in, f_out>>

\* the host stops the strategy: QS2.on_stop.  Whether the feed is ready
\* afterwards, and whether a handler is called again, is the host's and the
\* feed's: FeedChange and the other actions stay enabled.
QS2_Stop ==
    /\ strategy = "QS2"
    /\ Apply("stop", QS2_on_stop(Fields))
    /\ UNCHANGED <<strategy, current_timestamp, feed_ready, ticks, f_in,
                   f_out>>

Next ==
    \/ QS2_Tick
    \/ RSIAMM_Tick
    \/ VenueFill
    \/ VenueCancelled
    \/ FeedChange
    \/ QS2_Stop

Spec == Init /\ [][Next]_vars

(***************************************************************************)
(* The band filter on its own: every short proposal list, every band       *)
(***************************************************************************)
\* whole prices, and the two prices QS2 quotes at a mid price of 100
FilterPrices ==
    {DecimalOfInt(n) : n \in {95, 104, 105, 106}}
        \cup {DecimalMul(DecimalOfInt(100), QS2_buy_factor),
              DecimalMul(DecimalOfInt(100), QS2_sell_factor)}

\* bands as calculate_price_ceiling_floor leaves them
FilterBands == {DecimalOfFloat(FloatOf(n, 0)) : n \in {95, 98, 102, 105}}

FilterOrders ==
    {OrderCandidate(side, QS2_order_amount, price) :
        side \in Sides, price \in FilterPrices}

SeqsUpTo(S, n) == UNION {[1..k -> S] : k \in 0..n}

FilterRuns ==
    [proposal : SeqsUpTo(FilterOrders, MaxFilterLen),
     ceiling : FilterBands, floor : FilterBands]

FilterInit ==
    /\ StratInit
    /\ strategy = "QS2"
    /\ f_in \in FilterRuns
    /\ f_out = NoFilterOut

RunFilter ==
    /\ ~f_out.done
    /\ f_out' = [done |-> TRUE,
                 result |-> apply_price_ceiling_floor_filter(
                                f_in.proposal, f_in.ceiling, f_in.floor)]
    /\ UNCHANGED <<f_in, stratVars>>

FilterNext == RunFilter

FilterSpec == FilterInit /\ [][FilterNext]_vars

(***************************************************************************)
(* Vocabulary of the properties                                            *)
(***************************************************************************)
\* the buy/sell requests among the requests of a handler, in order
Submits(requests) == SelectSeq(requests, LAMBDA r : r.op # "cancel")

CancelAttempted(requests, id) ==
    \E j \in 1..Len(requests) :
        requests[j].op = "cancel" /\ requests[j].id = id

\* one buy/sell request per proposal of the list, in the list's order
SubmitsMatch(requests, proposal) ==
    LET s == Submits(requests) IN
    /\ Len(s) = Len(proposal)
    /\ \A i \in 1..Len(proposal) :
         /\ s[i].op = (IF proposal[i].side = "SELL" THEN "sell" ELSE "buy")
         /\ s[i].price = proposal[i].price
         /\ s[i].amount = proposal[i].amount

RECURSIVE IsSubseq(_, _)
IsSubseq(a, b) ==
    IF a = <<>> THEN TRUE
    ELSE IF b = <<>> THEN FALSE
    ELSE IF Head(a) = Head(b) THEN IsSubseq(Tail(a), Tail(b))
    ELSE IsSubseq(a, Tail(b))

\* the step is on_tick at a time when a refresh is due and the feed is ready
CycleStep ==
    /\ last'.op = "tick"
    /\ feed_ready
    /\ create_timestamp <= current_timestamp'

(***************************************************************************)
(* C1                                                                      *)
(***************************************************************************)
\* C1: after every tick that found the feed ready and the refresh due,
\* create_timestamp is exactly the tick's time plus order_refresh_time,
\* whatever failed during the cycle.
C1_ClockAdvancesAfterEveryCycle ==
    [][CycleStep =>
         create_timestamp' = current_timestamp' + order_refresh_time]_vars

(***************************************************************************)
(* C2                                                                      *)
(***************************************************************************)
\* C2: a tick that finds the feed not ready makes no request to the venue
\* and leaves create_timestamp, price_ceiling, price_floor and the resting
\* orders as they were.
C2_NotReadySkipsTheCycle ==
    [][(last'.op = "tick" /\ ~feed_ready) =>
         /\ last'.requests = <<>>
         /\ ~last'.entered
         /\ UNCHANGED <<create_timestamp, price_ceiling, price_floor,
                        active_orders>>]_vars

\* a tick came when the refresh was due and the feed was not ready
C2_Witness ==
    /\ last.op = "tick"
    /\ ~feed_ready
    /\ create_timestamp <= current_timestamp
    /\ current_timestamp > 0

(***************************************************************************)
(* C3                                                                      *)
(***************************************************************************)
\* C3: no exception leaves on_tick, whichever calls of the cycle fail.
C3_OnTickNeverRaises == last.op = "tick" => ~last.raised

(***************************************************************************)
(* C4                                                                      *)
(***************************************************************************)
\* C4: in every cycle each proposal of the adjusted list gets exactly one
\* buy/sell request, whether or not the requests for the others raise.
C4_EveryProposalIsAttempted ==
    (last.op = "tick" /\ last.entered) =>
        SubmitsMatch(last.requests, last.adjusted)

(***************************************************************************)
(* C5                                                                      *)
(***************************************************************************)
\* C5: in every cycle a cancel is requested for every order that was resting
\* when the cycle began, whether or not the cancel of another order raises.
C5_EveryRestingOrderGetsACancel ==
    [][CycleStep =>
         \A i \in 1..Len(active_orders) :
             CancelAttempted(last'.requests, i)]_vars

(***************************************************************************)
(* C6                                                                      *)
(***************************************************************************)
\* C6: when on_stop has run, a cancel has been requested for every order
\* that was resting when it began.
C6_StopCancelsRestingOrders ==
    [][last'.op = "stop" =>
         \A i \in 1..Len(active_orders) :
             CancelAttempted(last'.requests, i)]_vars

(***************************************************************************)
(* C7                                                                      *)
(***************************************************************************)
\* C7: a cycle generates a BUY and a SELL together or nothing, the filtered
\* and adjusted lists are taken from them, and the cycle requests either no
\* order or exactly the orders of its adjusted list.
C7_SubmitsNothingOrTheAdjustedList ==
    (last.op = "tick" /\ last.entered) =>
        /\ \/ last.proposal = <<>>
           \/ /\ Len(last.proposal) = 2
              /\ last.proposal[1].side = "BUY"
              /\ last.proposal[2].side = "SELL"
        /\ IsSubseq(last.filtered, last.proposal)
        /\ IsSubseq(last.adjusted, last.filtered)
        /\ \/ Submits(last.requests) = <<>>
           \/ SubmitsMatch(last.requests, last.adjusted)

(***************************************************************************)
(* C8                                                                      *)
(***************************************************************************)
\* C8: a tick before create_timestamp, the feed ready or not, makes no
\* request and changes nothing; a tick at exactly create_timestamp starts a
\* cycle.  The scheduler tests the refresh time of a tick whose feed is
\* ready (readiness is the precondition of every cycle; C2 is the tick that
\* finds it missing), so the second half is about such a tick.
C8_IdleBeforeRefreshTime ==
    [][/\ (last'.op = "tick" /\ current_timestamp' < create_timestamp) =>
            /\ last'.requests = <<>>
            /\ ~last'.entered
            /\ UNCHANGED <<create_timestamp, price_ceiling, price_floor,
                           active_orders>>
       /\ (last'.op = "tick" /\ current_timestamp' = create_timestamp
             /\ feed_ready) => last'.entered]_vars

\* a tick came with the feed ready, orders resting and the refresh not due
C8_Witness ==
    /\ last.op = "tick"
    /\ feed_ready
    /\ ~last.entered
    /\ current_timestamp < create_timestamp
    /\ Len(active_orders) > 0

(***************************************************************************)
(* C9                                                                      *)
(***************************************************************************)
\* C9: handling a fill, of a whole order or of a part of one, the handler
\* failing or not, makes no request and leaves create_timestamp,
\* price_ceiling and price_floor as they were; at the venue nothing changes
\* but the filled order, which is gone when it was filled whole.
C9_FillChangesNothing ==
    [][last'.op = "fill" =>
         /\ last'.requests = <<>>
         /\ UNCHANGED <<create_timestamp, price_ceiling, price_floor>>
         /\ \/ active_orders' = active_orders
            \/ \E i \in 1..Len(active_orders) :
                   active_orders' = Without(active_orders, i)]_vars

\* a fill was handled between two cycles, with the bands already computed
C9_Witness ==
    /\ last.op = "fill"
    /\ create_timestamp > current_timestamp
    /\ DecimalLess(DecimalZero, price_ceiling)
    /\ Len(active_orders) > 0

(***************************************************************************)
(* C10                                                                     *)
(***************************************************************************)
DroppedByBand(order, ceiling, floor) ==
    \/ order.side = "BUY" /\ DecimalCmp(order.price, ceiling) >= 0
    \/ order.side = "SELL" /\ DecimalCmp(order.price, floor) <= 0

C10_Example ==
    [proposal |->
        << OrderCandidate("BUY", QS2_order_amount, DecimalOfInt(106)),
           OrderCandidate("SELL", QS2_order_amount, DecimalOfInt(104)) >>,
     ceiling |-> DecimalOfFloat(FloatOf(105, 0)),
     floor |-> DecimalOfFloat(FloatOf(95, 0))]

\* C10: the band filter returns the proposals that are neither a BUY at or
\* above the ceiling nor a SELL at or below the floor, unchanged and in
\* their order; ceiling 105, floor 95, [buy@106, sell@104] gives [sell@104].
C10_BandFilter ==
    f_out.done =>
        /\ f_out.result =
             SelectSeq(f_in.proposal,
                       LAMBDA o : ~DroppedByBand(o, f_in.ceiling, f_in.floor))
        /\ f_in = C10_Example =>
             f_out.result =
                 <<OrderCandidate("SELL", QS2_order_amount, DecimalOfInt(104))>>

\* the filter has run on the example
C10_Witness == f_out.done /\ f_in = C10_Example

(***************************************************************************)
(* create_proposal on its own: every mid price, NATR and RSI reading       *)
(***************************************************************************)
QuoteMids == {1, 100}
TinyShift == 49

\* NATR readings: the float n / 2^j percent.  The whole percentages up to
\* MaxNatr, and one so small that 1 plus the half-spread is 1 in floats
QuoteNatrs == [n : 0..MaxNatr, j : {0}] \cup {[n |-> 1, j |-> TinyShift]}
QuoteRsis == {0, 29, 30, 31, 50, 69, 70, 71, 100}

NoReading == [n |-> 0, j |-> 0]

QuoteRuns ==
    [mid : QuoteMids,
     natr : Opt(QuoteNatrs) \cup {Raise(NoReading)},
     rsi : Opt(QuoteRsis) \cup {Raise(0)}]

QuoteInit ==
    /\ StratInit
    /\ strategy = "RSIAMM"
    /\ f_in \in QuoteRuns
    /\ f_out = NoFilterOut

\* what ta.natr(...).iloc[-1] gives in the run
NatrOfRun ==
    [raise |-> f_in.natr.raise, v |-> FloatOf(f_in.natr.v.n, f_in.natr.v.j)]

\* RSIAMM.create_proposal(mid), and QS2.create_proposal at the same mid
\* price
RunQuote ==
    /\ ~f_out.done
    /\ f_out' =
         [done |-> TRUE,
          result |-> RSIAMM_create_proposal(DecimalOfInt(f_in.mid), NatrOfRun,
                                            f_in.rsi),
          qs2 |-> QS2_create_proposal([raise |-> FALSE, v |-> f_in.mid])]
    /\ UNCHANGED <<f_in, stratVars>>

QuoteNext == RunQuote

QuoteSpec == QuoteInit /\ [][QuoteNext]_vars

\* the mid price as read, and the adjusted mid price of the run
MidAsRead == DecimalOfInt(f_in.mid)
AdjustedOfRun == f_out.result.adjusted_mid_price

\* create_proposal ran and both indicators had a value
QuoteMade == f_out.done /\ ~f_in.natr.raise /\ ~f_in.rsi.raise

\* the volatility get_natr gives in the run is positive
PositiveVolatility == get_natr(NatrOfRun).v.sign = 1

(***************************************************************************)
(* C12                                                                     *)
(***************************************************************************)
\* C12: when the NATR or the RSI cannot be determined (too short a candle
\* history), create_proposal does not raise: it returns a BUY and a SELL
\* proposal placed around the unadjusted mid price (signal 0).
C12_IndeterminateIndicatorFallsBack ==
    (f_out.done /\ (f_in.natr.raise \/ f_in.rsi.raise)) =>
        /\ ~f_out.result.raised
        /\ Len(f_out.result.proposal) = 2
        /\ f_out.result.proposal[1].side = "BUY"
        /\ f_out.result.proposal[2].side = "SELL"
        /\ DecimalLess(f_out.result.proposal[1].price, MidAsRead)
        /\ DecimalLess(MidAsRead, f_out.result.proposal[2].price)

(***************************************************************************)
(* C13                                                                     *)
(***************************************************************************)
\* C13: at a positive volatility, the adjusted mid price is strictly above
\* the mid price when the RSI is below rsi_low, strictly below it when the
\* RSI is above rsi_high, and equal to it in every other case, an RSI equal
\* to either threshold included.  (At a volatility of 0 the skew offset is
\* 0 and the formula of the adjusted price itself gives the mid price.)
C13_SkewDirection ==
    (QuoteMade /\ PositiveVolatility) =>
        IF f_in.rsi.v < rsi_low
        THEN DecimalLess(MidAsRead, AdjustedOfRun)
        ELSE IF f_in.rsi.v > rsi_high
        THEN DecimalLess(AdjustedOfRun, MidAsRead)
        ELSE DecimalEq(AdjustedOfRun, MidAsRead)

(***************************************************************************)
(* C14                                                                     *)
(***************************************************************************)
\* the half-spread natr_spread_multiplier * natr of the run lies strictly
\* between 0 and 1
HalfSpreadInUnitInterval ==
    /\ HalfSpread(get_natr(NatrOfRun).v).sign = 1
    /\ FloatCmp(HalfSpread(get_natr(NatrOfRun).v), FloatOf(1, 0)) < 0

\* C14: for a positive mid price p and a half-spread strictly between 0 and
\* 1, the BUY price of create_proposal is strictly below p and the SELL
\* price strictly above p; in RSIAMM this holds of the mid price as read
\* and of the adjusted mid price alike, whatever the RSI signal.
C14_QuotesStraddleReference ==
    f_out.done =>
        /\ DecimalLess(f_out.qs2[1].price, MidAsRead)
        /\ DecimalLess(MidAsRead, f_out.qs2[2].price)
        /\ (QuoteMade /\ HalfSpreadInUnitInterval) =>
             LET buy == f_out.result.proposal[1].price
                 sell == f_out.result.proposal[2].price
             IN  /\ DecimalLess(buy, MidAsRead)
                 /\ DecimalLess(MidAsRead, sell)
                 /\ DecimalLess(buy, AdjustedOfRun)
                 /\ DecimalLess(AdjustedOfRun, sell)

(***************************************************************************)
(* C15                                                                     *)
(***************************************************************************)
\* the claim's formula for a multiplier mn/md, a sensitivity cn/cd and a
\* volatility of natr percent:
\*   adjusted = reference * (1 + signal * multiplier * volatility * sensitivity)
\*   buy  = adjusted * (1 - multiplier * volatility)
\*   sell = adjusted * (1 + multiplier * volatility)
\* with buy and sell as numerators over den
FormulaQuote(reference, signal, natr, mn, md, cn, cd) ==
    LET adjusted == reference * (md * PctDen * cd + signal * mn * natr * cn)
    IN  [den |-> (md * PctDen * cd) * (md * PctDen),
         buy |-> adjusted * (md * PctDen - mn * natr),
         sell |-> adjusted * (md * PctDen + mn * natr)]

\* the Decimal price is the fraction num / den
PriceIs(price, num, den) ==
    DecimalEq(Dec(price.sign, BigMul(price.c, BigOf(den)), price.e),
              DecimalOfInt(num))

\* C15: create_proposal returns exactly two proposals, BUY then SELL, both
\* of the configured order amount, priced by the formula above at the
\* configured multiplier and sensitivity.  The formula gives the claim's
\* example (reference 100, signal +1, volatility 1 percent, multiplier 1,
\* sensitivity 1/2: buy 99.495, sell 101.505), and create_proposal gives
\* the same two prices at the configured multiplier 1/2 when the
\* volatility is 2 percent.
C15_QuoteFormula ==
    /\ LET ex == FormulaQuote(100, 1, 1, 1, 1, 1, 2) IN
         /\ ex.den % 1000 = 0
         /\ ex.buy = 99495 * (ex.den \div 1000)
         /\ ex.sell = 101505 * (ex.den \div 1000)
    /\ QuoteMade =>
         /\ ~f_out.result.raised
         /\ Len(f_out.result.proposal) = 2
         /\ f_out.result.proposal[1].side = "BUY"
         /\ f_out.result.proposal[2].side = "SELL"
         /\ f_out.result.proposal[1].amount = RSIAMM_order_amount
         /\ f_out.result.proposal[2].amount = RSIAMM_order_amount
    /\ (QuoteMade /\ f_in.natr.v.j = 0) =>
         LET q == FormulaQuote(f_in.mid, get_rsi_signal(f_in.rsi).v,
                               f_in.natr.v.n,
                               natr_spread_multiplier_num,
                               natr_spread_multiplier_den,
                               rsi_spread_change_num, rsi_spread_change_den)
         IN  /\ PriceIs(f_out.result.proposal[1].price, q.buy, q.den)
             /\ PriceIs(f_out.result.proposal[2].price, q.sell, q.den)
    /\ (QuoteMade /\ f_in.mid = 100 /\ f_in.rsi.v < rsi_low
            /\ f_in.natr.v = [n |-> 2, j |-> 0]) =>
         /\ PriceIs(f_out.result.proposal[1].price, 99495, 1000)
         /\ PriceIs(f_out.result.proposal[2].price, 101505, 1000)

(***************************************************************************)
(* C16                                                                     *)
(***************************************************************************)
\* C16: create_timestamp starts at 0, so as long as it still has that value
\* a tick that finds the feed ready enters a refresh cycle, at whatever
\* time from 0 on the tick comes; the first tick with the feed ready is
\* such a tick.
C16_FirstReadyTickRefreshes ==
    [][(last'.op = "tick" /\ feed_ready /\ create_timestamp = 0
            /\ current_timestamp' >= 0)
        => last'.entered]_vars

\* QS2's first cycle, entered at a time after 0 by a tick that was not the
\* first: a cycle of QS2 leaves create_timestamp at order_refresh_time or
\* later, so the ticks before this one found the feed not ready and
\* create_timestamp was still 0
C16_Witness ==
    /\ strategy = "QS2"
    /\ last.op = "tick"
    /\ last.entered
    /\ feed_ready
    /\ ticks > 1
    /\ 0 < current_timestamp
    /\ current_timestamp < order_refresh_time

(***************************************************************************)
(* C18                                                                     *)
(***************************************************************************)
\* C18: every refresh cycle is cancel-then-recreate: the only requests it
\* makes to the venue are cancel, buy and sell; every cancel request comes
\* before every buy or sell request; and when the cycle submits an order at
\* all, a cancel has been requested for every order that was resting when
\* the cycle began.
C18_CancelThenRecreate ==
    [][CycleStep =>
         LET requests == last'.requests IN
         /\ \A j \in 1..Len(requests) :
                requests[j].op \in {"cancel", "buy", "sell"}
         /\ \A j, k \in 1..Len(requests) :
                (requests[j].op = "cancel" /\ requests[k].op # "cancel")
                    => j < k
         /\ Submits(requests) # <<>> =>
                \A i \in 1..Len(active_orders) :
                    CancelAttempted(requests, i)]_vars

(***************************************************************************)
(* C19                                                                     *)
(***************************************************************************)
\* C19: a cycle that runs to its end at time t_prev leaves create_timestamp
\* = t_prev + order_refresh_time, and nothing else assigns it.  From then
\* on no handler makes a cancel, buy or sell request at a time t with
\* t_prev <= t < t_prev + order_refresh_time, and the next cycle that runs
\* to its end does so at least order_refresh_time after t_prev.
C19_CompletedCyclesAreSpaced ==
    [][/\ (/\ create_timestamp >= order_refresh_time
           /\ create_timestamp - order_refresh_time <= current_timestamp'
           /\ current_timestamp' < create_timestamp)
          => last'.requests = <<>>
       /\ create_timestamp' # create_timestamp
          => /\ create_timestamp' = current_timestamp' + order_refresh_time
             /\ create_timestamp' >= create_timestamp + order_refresh_time
      ]_vars

\* QS2 has run a second cycle to its end: it cancelled an order placed by a
\* first cycle, which ran at least order_refresh_time earlier
C19_Witness ==
    /\ strategy = "QS2"
    /\ last.op = "tick"
    /\ last.entered
    /\ create_timestamp = current_timestamp + order_refresh_time
    /\ current_timestamp >= order_refresh_time
    /\ \E j \in 1..Len(last.requests) : last.requests[j].op = "cancel"

(***************************************************************************)
(* One QS2 cycle on its own: every pair of bands left by earlier cycles    *)
(***************************************************************************)
\* the bands of one cycle: those of the ticking script, and an upper band
\* of 98.0, just above the BUY price quoted at a mid price of 100
CycleBandValues == BandValues \cup {<<FloatOf(98, 0), FloatOf(95, 0)>>}

\* <<price_ceiling, price_floor>> before the cycle: as constructed, or as a
\* successful computation left them
EarlierBands ==
    {<<DecimalZero, DecimalZero>>}
        \cup {<<DecimalOfFloat(b[1]), DecimalOfFloat(b[2])>> :
                 b \in CycleBandValues}

CycleRuns ==
    [bands : EarlierBands, in : QS2_InputsWith(<<>>, CycleBandValues)]

CycleInit ==
    /\ StratInit
    /\ strategy = "QS2"
    /\ f_in \in CycleRuns
    /\ f_out = NoFilterOut

RunCycle ==
    /\ ~f_out.done
    /\ f_out' =
         [done |-> TRUE,
          result |-> QS2_cycle([create_timestamp |-> create_timestamp,
                                price_ceiling |-> f_in.bands[1],
                                price_floor |-> f_in.bands[2],
                                active_orders |-> active_orders],
                               current_timestamp, f_in.in)]
    /\ UNCHANGED <<f_in, stratVars>>

CycleNext == RunCycle

CycleSpec == CycleInit /\ [][CycleNext]_vars

(***************************************************************************)
(* C20                                                                     *)
(***************************************************************************)
\* C20: when the band computation of a cycle raises, price_ceiling and
\* price_floor keep the values they had before the cycle, and the cycle
\* goes on to its end with them: the band filter keeps exactly the SELL
\* proposals above that floor and the BUY proposals below that ceiling, and
\* create_timestamp is advanced.  While both are 0, every BUY proposal is
\* dropped and every SELL proposal with a positive price is kept.
C20_FailedBandsKeepEarlierValues ==
    (f_out.done /\ f_in.in.band.raise) =>
        LET out == f_out.result IN
        /\ out.price_ceiling = f_in.bands[1]
        /\ out.price_floor = f_in.bands[2]
        /\ out.entered
        /\ ~out.raised
        /\ out.create_timestamp = order_refresh_time + current_timestamp
        /\ out.filtered =
             SelectSeq(out.proposal,
                       LAMBDA o :
                           \/ /\ o.side = "SELL"
                              /\ DecimalLess(f_in.bands[2], o.price)
                           \/ /\ o.side = "BUY"
                              /\ DecimalLess(o.price, f_in.bands[1]))
        /\ f_in.bands = <<DecimalZero, DecimalZero>> =>
             /\ \A i \in 1..Len(out.filtered) : out.filtered[i].side # "BUY"
             /\ \A i \in 1..Len(out.proposal) :
                    (/\ out.proposal[i].side = "SELL"
                     /\ DecimalLess(DecimalZero, out.proposal[i].price))
                        => \E j \in 1..Len(out.filtered) :
                               out.filtered[j] = out.proposal[i]

\* the band computation raised in a cycle that began with the bands of an
\* earlier cycle, 97.0 and 95.0: both are kept, and with them the filter
\* has dropped the BUY and kept the SELL
C20_Witness ==
    /\ f_out.done
    /\ f_in.in.band.raise
    /\ f_in.bands = <<DecimalOfFloat(FloatOf(97, 0)),
                      DecimalOfFloat(FloatOf(95, 0))>>
    /\ f_out.result.price_ceiling = f_in.bands[1]
    /\ f_out.result.price_floor = f_in.bands[2]
    /\ Len(f_out.result.proposal) = 2
    /\ Len(f_out.result.filtered) = 1
    /\ f_out.result.filtered[1].side = "SELL"

(***************************************************************************)
(* The scripts at a venue that confirms every cancel before the next       *)
(* refresh cycle and never fails one                                       *)
(***************************************************************************)
\* a cycle begins with no cancel still unconfirmed, and no cancel of the
\* cycle raises
CancelsConfirmedAndNoneFails ==
    CycleStep =>
        /\ \A i \in 1..Len(active_orders) : ~active_orders[i].cancelling
        /\ \A j \in 1..Len(last'.requests) :
               last'.requests[j].op = "cancel" => ~last'.requests[j].raised

OrderlyNext ==
    \/ QS2_Tick /\ CancelsConfirmedAndNoneFails
    \/ RSIAMM_Tick /\ CancelsConfirmedAndNoneFails
    \/ VenueFill
    \/ VenueCancelled
    \/ FeedChange
    \/ QS2_Stop

OrderlySpec == Init /\ [][OrderlyNext]_vars

(***************************************************************************)
(* C21                                                                     *)
(***************************************************************************)
\* the resting orders of one side, and those among them with no cancel
\* requested
RestingOn(side) ==
    {i \in 1..Len(active_orders) : active_orders[i].side = side}

LiveOn(side) ==
    {i \in RestingOn(side) : ~active_orders[i].cancelling}

\* C21: at a venue that confirms every cancel before the next refresh cycle
\* and fails none, at most one BUY and at most one SELL are resting without
\* a cancel requested for them, after every tick and at every other time;
\* the orders a tick has asked to cancel rest beside the new ones until the
\* venue confirms.
C21_AtMostOneLiveOrderPerSide ==
    /\ Cardinality(LiveOn("BUY")) <= 1
    /\ Cardinality(LiveOn("SELL")) <= 1

\* C21 as stated: at such a venue at most two orders are resting after
\* every tick, at most one BUY and at most one SELL
C21_AtMostTwoResting_AsStated ==
    last.op = "tick" =>
        /\ Len(active_orders) <= 2
        /\ Cardinality(RestingOn("BUY")) <= 1
        /\ Cardinality(RestingOn("SELL")) <= 1

\* after a refresh tick: the BUY and the SELL of the cycle before, their
\* cancels requested and not yet confirmed, rest beside the new BUY and the
\* new SELL
C21_Witness ==
    /\ last.op = "tick"
    /\ last.entered
    /\ Len(active_orders) = 4
    /\ Cardinality(LiveOn("BUY")) = 1
    /\ Cardinality(LiveOn("SELL")) = 1
    /\ Cardinality(RestingOn("BUY")) = 2
    /\ Cardinality(RestingOn("SELL")) = 2

====
